---- MODULE Spec2Model ----
(***************************************************************************)
(* Model of map_pdb_cdb.py: four fetchers over the OCI command-line        *)
(* client, the in-memory join of PDBs, CDBs and DB homes, and the CSV      *)
(* writer, sequenced by main.                                              *)
(*                                                                         *)
(* Python values are represented as follows.                               *)
(*   str            a TLA+ string                                          *)
(*   None / null    the string PyNone (never a member of a value domain)   *)
(*   dict           a function whose DOMAIN is the set of keys             *)
(*   list           a sequence                                             *)
(* The value returned (or the exception raised) by a call is a record      *)
(* [t, v]: t is "list" (v the sequence of its JSON objects), "scalars" (a  *)
(* list holding something that is no JSON object), "dict" (v the           *)
(* function), "str", "num", "none" or "raise" (v the exception's class     *)
(* name).                                                                  *)
(* A file's content is the string of its bytes.                            *)
(***************************************************************************)
EXTENDS Integers, Sequences, FiniteSets, TLC

VARIABLES
    pc,               \* the step main is about to execute
    profile,          \* args.profile
    compartment_id,   \* args.compartment_id
    pdbs,             \* main's local pdbs
    databases,        \* get_cdb_mapping's local databases (raw CDB records)
    db_homes,         \* get_db_home_mapping's local db_homes (raw home records)
    cdb_mapping,      \* main's local cdb_mapping
    db_home_mapping,  \* main's local db_home_mapping
    compartment_name, \* main's local compartment_name
    mapping,          \* main's local mapping (the joined rows)
    file,             \* pdb_cdb_mapping.csv on disk
    log,              \* the lines printed so far
    issued,           \* the command lines handed to subprocess.run, in order
    outcome,          \* what the last external command did
    ret,              \* what the last run_oci_command call returned or raised
    exc               \* the exception that ended main, or "" when none did

vars == <<pc, profile, compartment_id, pdbs, databases, db_homes, cdb_mapping,
          db_home_mapping, compartment_name, mapping, file, log, issued,
          outcome, ret, exc>>

----------------------------------------------------------------------------
(* Bounds of the model. *)

MaxPdbs == 2
MaxCdbs == 1
MaxHomes == 1

----------------------------------------------------------------------------
(* Python values. *)

PyNone == "<None>"

EmptyDict == [k \in {} |-> k]

\* dict.get(key, default)
Get(d, k, default) == IF k \in DOMAIN d THEN d[k] ELSE default

\* The position of the last element of the sequence keys that equals k.
LastIndexOf(keys, k) ==
    CHOOSE i \in DOMAIN keys : keys[i] = k /\ \A j \in DOMAIN keys : keys[j] = k => j <= i

\* {key: value for x in list}, keys and values being the sequences of the
\* keys and values computed from the list's elements: a later element
\* replaces an earlier one with the same key.
DictFromList(keys, values) ==
    [k \in {keys[i] : i \in DOMAIN keys} |-> values[LastIndexOf(keys, k)]]

PyList(s) == [t |-> "list", v |-> s]
PyDict(d) == [t |-> "dict", v |-> d]
PyStr(s) == [t |-> "str", v |-> s]
PyNum(n) == [t |-> "num", v |-> n]
\* A list with an element that is no JSON object.
PyScalars(s) == [t |-> "scalars", v |-> s]
PyNull == [t |-> "none", v |-> <<>>]
\* A local that no statement has assigned yet.
Unbound == [t |-> "unbound", v |-> <<>>]
Raise(e) == [t |-> "raise", v |-> e]

\* Python truth value of a returned value: None, [], {}, "" and 0 are false.
Truthy(r) ==
    CASE r.t \in {"list", "scalars"} -> Len(r.v) > 0
      [] r.t = "dict" -> DOMAIN r.v # {}
      [] r.t = "str" -> r.v # ""
      [] r.t = "num" -> r.v # 0
      [] OTHER -> FALSE

\* The exception raised by a comprehension "... x.get(...) ... for x in r",
\* "" when it raises none: None and a number cannot be iterated, and the
\* elements of anything but a list of objects (a dict's keys, a string's
\* characters, a scalar) have no get.
GetOnEach(r) ==
    CASE r.t \in {"none", "num"} -> "TypeError"
      [] r.t = "list" -> ""
      [] OTHER -> IF Truthy(r) THEN "AttributeError" ELSE ""

\* The objects such a comprehension visits.
Objects(r) == IF r.t = "list" THEN r.v ELSE <<>>

SeqsUpTo(S, n) == UNION {[1..k -> S] : k \in 0..n}

\* The JSON objects over the fields DOMAIN Vals: the fields of Always are
\* present and any of the others may be, each with a value of its domain
\* Vals[field].
ObjectsOver(Vals, Always) ==
    UNION {{f \in [D -> UNION {Vals[k] : k \in D}] : \A k \in D : f[k] \in Vals[k]}
              : D \in {X \in SUBSET DOMAIN Vals : Always \subseteq X}}

----------------------------------------------------------------------------
(* What the control plane may answer.  A record always carries its        *)
(* descriptive name; an identifier the join follows may be missing from    *)
(* the record, or null.                                                    *)

\* args.profile in the runs of main, and the profiles a command line is
\* built with when run_oci_command is taken alone.
Profiles == {"DEFAULT"}
CommandProfiles == {"DEFAULT", "list"}
CompartmentIds == {"ocid1.compartment.a"}

PdbVals == [k \in {"pdb-name", "container-database-id"} |->
               IF k = "pdb-name" THEN {"P1"} ELSE {PyNone, "cdb1"}]
PdbRecords == ObjectsOver(PdbVals, {"pdb-name"})

CdbVals == [k \in {"id", "db-name", "db-home-id"} |->
               CASE k = "id" -> {PyNone, "cdb1"}
                 [] k = "db-name" -> {"C1"}
                 [] OTHER -> {PyNone, "h1"}]
CdbRecords == ObjectsOver(CdbVals, {"db-name"})

HomeVals == [k \in {"id", "display-name"} |->
                IF k = "id" THEN {PyNone, "h1"} ELSE {"HOME1"}]
HomeRecords == ObjectsOver(HomeVals, {"display-name"})

CompartmentVals == [k \in {"name"} |-> {"Prod"}]
CompartmentRecords == ObjectsOver(CompartmentVals, {})

\* An external command's outcome: kind is
\*   "oserror"    subprocess.run itself raised: the client could not be
\*                started (FileNotFoundError, PermissionError, ...)
\*   "undecodable" subprocess.run raised while decoding the client's output
\*                (text=True): UnicodeDecodeError
\*   "exit"       the client exited non-zero
\*   "badjson"    exit 0, stdout is not JSON (the client prints nothing at
\*                all when a list is empty): json.loads raises
\*                JSONDecodeError
\*   "toodeep"    exit 0, stdout is nested deeper than the parser recurses:
\*                json.loads raises RecursionError
\*   "hugeint"    exit 0, stdout holds an integer of more digits than int()
\*                converts: json.loads raises ValueError
\*   "nonobject"  exit 0, stdout is JSON but not an object
\*   "nodata"     exit 0, stdout is a JSON object without "data"
\*   "data"       exit 0, stdout is a JSON object whose "data" is data
Failure(kind) == [kind |-> kind, data |-> PyNull]
DataOutcomes(S) == {[kind |-> "data", data |-> d] : d \in S}

\* The outcomes without a "data" value.
Failures ==
    {Failure(k) : k \in {"oserror", "undecodable", "exit", "badjson", "toodeep", "hugeint",
                         "nonobject", "nodata"}}

\* The script does not validate what it parses: "data" values that are
\* neither a list of objects nor an object.
Scalars == {PyNull, PyStr(""), PyStr("Prod"), PyNum(0), PyNum(7)}
Malformed == Scalars \cup {PyScalars(<<7>>)}

\* What a list command and a get command may do: fail, print the envelope
\* {"data": ...} of the expected shape, or print one of another shape.
ListOutcomes(Records, n) ==
    Failures \cup DataOutcomes({PyList(s) : s \in SeqsUpTo(Records, n)}
                                \cup {PyDict(d) : d \in CompartmentRecords}
                                \cup Malformed)
GetOutcomes(Records) ==
    Failures \cup DataOutcomes({PyDict(d) : d \in Records}
                                \cup {PyList(<<>>)} \cup {PyList(<<d>>) : d \in Records}
                                \cup Malformed)

----------------------------------------------------------------------------
(* run_oci_command and the four fetchers. *)

Range(s) == {s[i] : i \in DOMAIN s}

\* "list" in command
IsListCommand(command) == "list" \in Range(command)

EmptyFor(command) == IF IsListCommand(command) THEN PyList(<<>>) ELSE PyDict(EmptyDict)

\* The except clause of run_oci_command: the exception classes it catches.
Caught == {"CalledProcessError", "JSONDecodeError"}

\* The exception the try block raises for an outcome, "" when it raises none.
Raised(out) ==
    CASE out.kind = "oserror" -> "OSError"
      [] out.kind = "undecodable" -> "UnicodeDecodeError"
      [] out.kind = "badjson" -> "JSONDecodeError"
      [] out.kind = "toodeep" -> "RecursionError"
      [] out.kind = "hugeint" -> "ValueError"
      [] out.kind = "nonobject" -> "AttributeError"
      [] OTHER -> ""

run_oci_command(command, out) ==
    IF Raised(out) # ""
    THEN IF Raised(out) \in Caught THEN EmptyFor(command) ELSE Raise(Raised(out))
    ELSE CASE out.kind = "exit" -> EmptyFor(command)
           [] out.kind = "nodata" -> PyList(<<>>)
           [] OTHER -> out.data

\* The lines run_oci_command prints.
RunLog(out) ==
    CASE out.kind = "exit" -> <<"Error executing OCI CLI">>
      [] Raised(out) \in Caught -> <<"Unexpected error">>
      [] OTHER -> <<>>

PdbCommand(p, c) ==
    <<"oci", "db", "pluggable-database", "list", "--limit", "1000",
      "--compartment-id", c, "--profile", p>>
CdbCommand(p, c) ==
    <<"oci", "db", "database", "list", "--limit", "2000",
      "--compartment-id", c, "--profile", p>>
HomeCommand(p, c) ==
    <<"oci", "db", "db-home", "list", "--limit", "1000",
      "--compartment-id", c, "--profile", p>>
CompartmentCommand(p, c) ==
    <<"oci", "iam", "compartment", "get", "--compartment-id", c, "--profile", p>>

get_pdb_list(p, c, out) == run_oci_command(PdbCommand(p, c), out)

CdbKey(db) == Get(db, "id", "Unknown ID")
CdbEntry(db) ==
    [CDB_Name |-> Get(db, "db-name", "Unknown CDB"),
     DB_Home_ID |-> Get(db, "db-home-id", "Unknown DB Home")]

get_cdb_mapping(p, c, out) ==
    LET r == run_oci_command(CdbCommand(p, c), out)
        dbs == Objects(r)
    IN CASE r.t = "raise" -> r
         [] GetOnEach(r) # "" -> Raise(GetOnEach(r))
         [] OTHER -> PyDict(DictFromList([i \in DOMAIN dbs |-> CdbKey(dbs[i])],
                                         [i \in DOMAIN dbs |-> CdbEntry(dbs[i])]))

HomeKey(home) == Get(home, "id", "Unknown DB Home")
HomeName(home) == Get(home, "display-name", "Unknown Oracle Home")

get_db_home_mapping(p, c, out) ==
    LET r == run_oci_command(HomeCommand(p, c), out)
        homes == Objects(r)
    IN CASE r.t = "raise" -> r
         [] GetOnEach(r) # "" -> Raise(GetOnEach(r))
         [] OTHER -> PyDict(DictFromList([i \in DOMAIN homes |-> HomeKey(homes[i])],
                                         [i \in DOMAIN homes |-> HomeName(homes[i])]))

get_compartment_name(p, c, out) ==
    LET r == run_oci_command(CompartmentCommand(p, c), out)
    IN CASE r.t = "raise" -> r
         [] ~Truthy(r) -> PyStr("Unknown Compartment")
         [] r.t = "dict" -> PyStr(Get(r.v, "name", "Unknown Compartment"))
         [] OTHER -> Raise("AttributeError")

----------------------------------------------------------------------------
(* The join. *)

Row(pdb, cdbs, homes, cid, cname) ==
    [PDB_Name |-> Get(pdb, "pdb-name", "Unknown PDB"),
     CDB_Name |-> Get(Get(cdbs, Get(pdb, "container-database-id", "Unknown CDB"), EmptyDict),
                      "CDB_Name", "Unknown CDB"),
     Oracle_Home |-> Get(homes,
                         Get(Get(cdbs, Get(pdb, "container-database-id", PyNone), EmptyDict),
                             "DB_Home_ID", PyNone),
                         "Unknown Oracle Home"),
     Compartment_Name |-> cname,
     CDB_ID |-> Get(pdb, "container-database-id", "Unknown CDB"),
     Compartment_ID |-> cid]

extract_pdb_cdb_mapping(r, cdbs, homes, cid, cname) ==
    LET ps == Objects(r)
    IN IF GetOnEach(r) # "" THEN Raise(GetOnEach(r))
       ELSE PyList([i \in 1..Len(ps) |-> Row(ps[i], cdbs, homes, cid, cname)])

----------------------------------------------------------------------------
(* The CSV writer. *)

FieldNames ==
    <<"PDB_Name", "CDB_Name", "Oracle_Home", "Compartment_Name", "CDB_ID", "Compartment_ID">>

\* The csv module writes None as the empty field.
CsvField(v) == IF v = PyNone THEN "" ELSE v

CsvLine(row) == [i \in 1..Len(FieldNames) |-> CsvField(row[FieldNames[i]])]

\* A record as the writer emits it: the fields joined by commas and ended by
\* the csv module's line terminator (no field of the report needs quoting).
CsvRecord(fields) ==
    fields[1] \o "," \o fields[2] \o "," \o fields[3] \o "," \o fields[4] \o ","
        \o fields[5] \o "," \o fields[6] \o "\r\n"

RECURSIVE CsvRecords(_)
CsvRecords(rows) ==
    IF rows = <<>> THEN "" ELSE CsvRecord(CsvLine(Head(rows))) \o CsvRecords(Tail(rows))

\* writeheader, then writerows: the bytes of a complete file.
CsvText(rows) == CsvRecord(FieldNames) \o CsvRecords(rows)

NoFile == [exists |-> FALSE, text |-> ""]
OldFile == [exists |-> TRUE,
            text |-> CsvRecord(FieldNames) \o CsvRecord(<<"OLD", "OLD", "OLD", "OLD", "OLD", "OLD">>)]

\* What the file system does to save_to_csv: io is "ok", "open" (open fails,
\* the file is untouched) or "write" (the file was opened, hence truncated,
\* and only the first n bytes reached it before a write, the flush or the
\* close failed).
IoOutcomes(rows) ==
    {[io |-> "ok", n |-> Len(CsvText(rows))], [io |-> "open", n |-> 0]}
        \cup {[io |-> "write", n |-> k] : k \in 0..Len(CsvText(rows))}

\* The file save_to_csv leaves behind.
SavedFile(old, rows, o) ==
    IF o.io = "open" THEN old
    ELSE [exists |-> TRUE, text |-> SubSeq(CsvText(rows), 1, o.n)]

\* The line save_to_csv prints; every Exception is caught, so it returns.
SaveLog(o) == IF o.io = "ok" THEN <<"CSV generated">> ELSE <<"Error saving CSV">>

\* save_to_csv without its except clause: an I/O failure escapes.
SaveRaisesUncaught(o) == IF o.io = "ok" THEN "" ELSE "OSError"

\* The exception save_to_csv lets through, "" when none.
SaveRaises(o) == ""

----------------------------------------------------------------------------
(* main, one action per step. *)

Init ==
    /\ pc = "FETCH_PDBS"
    /\ profile \in Profiles
    /\ compartment_id \in CompartmentIds
    /\ pdbs = Unbound
    /\ databases = Unbound
    /\ db_homes = Unbound
    /\ cdb_mapping = EmptyDict
    /\ db_home_mapping = EmptyDict
    /\ compartment_name = ""
    /\ mapping = <<>>
    /\ file \in {NoFile, OldFile}
    /\ log = <<>>
    /\ issued = <<>>
    /\ outcome = Failure("none")  \* no command has run yet
    /\ ret = Unbound
    /\ exc = ""

\* "if pdbs is None" in place of "if not pdbs".
NoPdbsOnlyNone(r) == r.t = "none"

\* if not pdbs
NoPdbs(r) == ~Truthy(r)

\* pdbs = get_pdb_list(...); if not pdbs: print(...); return
FetchPdbs ==
    /\ pc = "FETCH_PDBS"
    /\ \E out \in ListOutcomes(PdbRecords, MaxPdbs) :
         LET r == get_pdb_list(profile, compartment_id, out)
             l == log \o <<"Starting extraction...", "Fetching PDBs...">> \o RunLog(out)
         IN /\ issued' = Append(issued, PdbCommand(profile, compartment_id))
            /\ outcome' = out
            /\ ret' = r
            /\ IF r.t = "raise"
               THEN /\ pc' = "CRASHED"
                    /\ exc' = r.v
                    /\ log' = l
                    /\ pdbs' = pdbs
               ELSE /\ exc' = exc
                    /\ pdbs' = r
                    /\ IF NoPdbs(r)
                       THEN /\ pc' = "ABORT"
                            /\ log' = Append(l, "No PDB data found.")
                       ELSE /\ pc' = "FETCH_CDBS"
                            /\ log' = l
    /\ UNCHANGED <<profile, compartment_id, databases, db_homes, cdb_mapping,
                   db_home_mapping, compartment_name, mapping, file>>

\* cdb_mapping = get_cdb_mapping(...)
FetchCdbs ==
    /\ pc = "FETCH_CDBS"
    /\ \E out \in ListOutcomes(CdbRecords, MaxCdbs) :
         LET r == get_cdb_mapping(profile, compartment_id, out)
             q == run_oci_command(CdbCommand(profile, compartment_id), out)
         IN /\ issued' = Append(issued, CdbCommand(profile, compartment_id))
            /\ outcome' = out
            /\ ret' = q
            /\ log' = log \o <<"Fetching CDBs...">> \o RunLog(out)
            /\ databases' = IF q.t = "raise" THEN databases ELSE q
            /\ IF r.t = "raise"
               THEN /\ pc' = "CRASHED"
                    /\ exc' = r.v
                    /\ cdb_mapping' = cdb_mapping
               ELSE /\ pc' = "FETCH_HOMES"
                    /\ exc' = exc
                    /\ cdb_mapping' = r.v
    /\ UNCHANGED <<profile, compartment_id, pdbs, db_homes, db_home_mapping,
                   compartment_name, mapping, file>>

\* db_home_mapping = get_db_home_mapping(...)
FetchHomes ==
    /\ pc = "FETCH_HOMES"
    /\ \E out \in ListOutcomes(HomeRecords, MaxHomes) :
         LET r == get_db_home_mapping(profile, compartment_id, out)
             q == run_oci_command(HomeCommand(profile, compartment_id), out)
         IN /\ issued' = Append(issued, HomeCommand(profile, compartment_id))
            /\ outcome' = out
            /\ ret' = q
            /\ log' = log \o <<"Fetching DB Homes...">> \o RunLog(out)
            /\ db_homes' = IF q.t = "raise" THEN db_homes ELSE q
            /\ IF r.t = "raise"
               THEN /\ pc' = "CRASHED"
                    /\ exc' = r.v
                    /\ db_home_mapping' = db_home_mapping
               ELSE /\ pc' = "FETCH_COMPARTMENT"
                    /\ exc' = exc
                    /\ db_home_mapping' = r.v
    /\ UNCHANGED <<profile, compartment_id, pdbs, databases, cdb_mapping,
                   compartment_name, mapping, file>>

\* compartment_name = get_compartment_name(...)
FetchCompartment ==
    /\ pc = "FETCH_COMPARTMENT"
    /\ \E out \in GetOutcomes(CompartmentRecords) :
         LET r == get_compartment_name(profile, compartment_id, out)
         IN /\ issued' = Append(issued, CompartmentCommand(profile, compartment_id))
            /\ outcome' = out
            /\ ret' = run_oci_command(CompartmentCommand(profile, compartment_id), out)
            /\ log' = log \o <<"Fetching Compartment Name...">> \o RunLog(out)
            /\ IF r.t = "raise"
               THEN /\ pc' = "CRASHED"
                    /\ exc' = r.v
                    /\ compartment_name' = compartment_name
               ELSE /\ pc' = "JOIN"
                    /\ exc' = exc
                    /\ compartment_name' = r.v
    /\ UNCHANGED <<profile, compartment_id, pdbs, databases, db_homes, cdb_mapping,
                   db_home_mapping, mapping, file>>

\* mapping = extract_pdb_cdb_mapping(...)
Join ==
    /\ pc = "JOIN"
    /\ LET r == extract_pdb_cdb_mapping(pdbs, cdb_mapping, db_home_mapping,
                                        compartment_id, compartment_name)
       IN IF r.t = "raise"
          THEN /\ pc' = "CRASHED"
               /\ exc' = r.v
               /\ mapping' = mapping
          ELSE /\ pc' = "WRITE_CSV"
               /\ exc' = exc
               /\ mapping' = r.v
    /\ UNCHANGED <<profile, compartment_id, pdbs, databases, db_homes, cdb_mapping,
                   db_home_mapping, compartment_name, file, log, issued, outcome,
                   ret>>

\* save_to_csv(mapping, "pdb_cdb_mapping.csv"); print("Process completed successfully.")
WriteCsv ==
    /\ pc = "WRITE_CSV"
    /\ \E o \in IoOutcomes(mapping) :
         /\ file' = SavedFile(file, mapping, o)
         /\ IF SaveRaises(o) # ""
            THEN /\ pc' = "CRASHED"
                 /\ exc' = SaveRaises(o)
                 /\ log' = log
            ELSE /\ pc' = "DONE"
                 /\ exc' = exc
                 /\ log' = log \o SaveLog(o) \o <<"Process completed successfully.">>
    /\ UNCHANGED <<profile, compartment_id, pdbs, databases, db_homes, cdb_mapping,
                   db_home_mapping, compartment_name, mapping, issued, outcome, ret>>

\* One call of run_oci_command, on any of the four command lines and any
\* outcome of the external command.
CommandOutcomes ==
    {[command |-> PdbCommand(p, c), out |-> o] :
        p \in CommandProfiles, c \in CompartmentIds,
        o \in ListOutcomes(PdbRecords, MaxPdbs)}
    \cup {[command |-> CdbCommand(p, c), out |-> o] :
        p \in CommandProfiles, c \in CompartmentIds,
        o \in ListOutcomes(CdbRecords, MaxCdbs)}
    \cup {[command |-> HomeCommand(p, c), out |-> o] :
        p \in CommandProfiles, c \in CompartmentIds,
        o \in ListOutcomes(HomeRecords, MaxHomes)}
    \cup {[command |-> CompartmentCommand(p, c), out |-> o] :
        p \in CommandProfiles, c \in CompartmentIds,
        o \in GetOutcomes(CompartmentRecords)}

InitCommand ==
    /\ pc = "CALL"
    /\ profile = ""
    /\ compartment_id = ""
    /\ pdbs = Unbound
    /\ databases = Unbound
    /\ db_homes = Unbound
    /\ cdb_mapping = EmptyDict
    /\ db_home_mapping = EmptyDict
    /\ compartment_name = ""
    /\ mapping = <<>>
    /\ file = NoFile
    /\ log = <<>>
    /\ issued = <<>>
    /\ outcome = Failure("none")
    /\ ret = Unbound
    /\ exc = ""

RunCommand ==
    /\ pc = "CALL"
    /\ \E co \in CommandOutcomes :
         /\ issued' = <<co.command>>
         /\ outcome' = co.out
         /\ ret' = run_oci_command(co.command, co.out)
         /\ log' = RunLog(co.out)
    /\ pc' = "RETURN"
    /\ UNCHANGED <<profile, compartment_id, pdbs, databases, db_homes, cdb_mapping,
                   db_home_mapping, compartment_name, mapping, file, exc>>

NextCommand == RunCommand

SpecCommand == InitCommand /\ [][NextCommand]_vars

Next ==
    \/ FetchPdbs
    \/ FetchCdbs
    \/ FetchHomes
    \/ FetchCompartment
    \/ Join
    \/ WriteCsv

Spec == Init /\ [][Next]_vars

----------------------------------------------------------------------------
(* Vocabulary of the properties. *)

CID == "container-database-id"

\* The run is over.
Finished == pc \in {"DONE", "ABORT", "CRASHED"}

\* mapping holds the rows of this run.
Joined == pc \in {"WRITE_CSV", "DONE"}

\* The PDB fetch returned a list of N > 0 records.
HavePdbs == pdbs.t = "list" /\ Len(pdbs.v) > 0

\* The file is as it was before the run: a file the run wrote exists and
\* never holds OldFile's bytes.
Untouched(f) == f \in {NoFile, OldFile}

Last(s) == s[Len(s)]

\* The number of data rows a file holds: its complete lines but the header.
DataRows(f) ==
    Cardinality({i \in 1..Len(f.text) : SubSeq(f.text, i, i) = "\n"}) - 1

\* The record holds a value (not null) for the field.
HasVal(r, k) == k \in DOMAIN r /\ r[k] # PyNone

\* The operation a command line names: its fourth word.
IsListOperation(command) == command[4] = "list"

\* The line the log holds right after the given line, "" if none.
LoggedAfter(line) ==
    IF \E k \in 1..(Len(log) - 1) : log[k] = line
    THEN log[(CHOOSE k \in 1..(Len(log) - 1) : log[k] = line) + 1]
    ELSE ""

\* The run was ended by output of a shape the script does not expect, or
\* that its parser does not take.
EndedByShape == exc \in {"AttributeError", "TypeError", "RecursionError", "ValueError"}

Diagnostics == {"Error executing OCI CLI", "Unexpected error"}

\* The CDB fetch exited non-zero or printed malformed JSON.
CdbFetchFailed == LoggedAfter("Fetching CDBs...") \in Diagnostics

----------------------------------------------------------------------------
(* The claims. *)

\* C1: a run whose PDB fetch returned N > 0 records ends with a file of
\* exactly N data rows, whatever the other fetches returned; a run whose PDB
\* fetch returned an empty list writes no file.  (Runs ended by output of an
\* unexpected shape are left aside.)
C1_RowCountEqualsPdbCount ==
    (Finished /\ pdbs.t = "list" /\ ~EndedByShape) =>
        IF Len(pdbs.v) > 0
        THEN file.exists /\ ~Untouched(file) /\ DataRows(file) = Len(pdbs.v)
        ELSE Untouched(file)

\* C2: run_oci_command never raises, and when the command fails (it cannot be
\* started, exits non-zero, or prints no parseable JSON) it returns [] for a
\* list operation and {} for a get operation.
C2_NeverRaisesDegradesToEmpty ==
    (pc = "RETURN" /\ outcome.kind \in {"oserror", "undecodable", "exit", "badjson"}) =>
        ret = IF IsListOperation(Last(issued)) THEN PyList(<<>>) ELSE PyDict(EmptyDict)

\* C3: main takes its steps in the fixed order, one command per fetch step,
\* and leaves the order only to abort right after a PDB fetch without rows.
C3_FixedStepOrder ==
    [][\/ /\ pc = "FETCH_PDBS"
          /\ issued' = Append(issued, PdbCommand(profile, compartment_id))
          /\ IF Truthy(pdbs') THEN pc' = "FETCH_CDBS" ELSE pc' = "ABORT"
       \/ /\ pc = "FETCH_CDBS"
          /\ issued' = Append(issued, CdbCommand(profile, compartment_id))
          /\ pc' = "FETCH_HOMES"
       \/ /\ pc = "FETCH_HOMES"
          /\ issued' = Append(issued, HomeCommand(profile, compartment_id))
          /\ pc' = "FETCH_COMPARTMENT"
       \/ /\ pc = "FETCH_COMPARTMENT"
          /\ issued' = Append(issued, CompartmentCommand(profile, compartment_id))
          /\ pc' = "JOIN"
       \/ pc = "JOIN" /\ pc' = "WRITE_CSV" /\ issued' = issued
       \/ pc = "WRITE_CSV" /\ pc' = "DONE" /\ issued' = issued]_vars

\* C4: a PDB whose container-database-id is no key of the CDB mapping, or
\* that has none, gets CDB_Name "Unknown CDB" and Oracle_Home "Unknown Oracle
\* Home", whatever the home mapping holds.
C4_UnmappedCdbGivesPlaceholders ==
    Joined =>
        \A i \in 1..Len(pdbs.v) :
            (CID \notin DOMAIN pdbs.v[i] \/ pdbs.v[i][CID] \notin DOMAIN cdb_mapping) =>
                /\ mapping[i].CDB_Name = "Unknown CDB"
                /\ mapping[i].Oracle_Home = "Unknown Oracle Home"

\* The CDB record the mapping's entry for key k was built from.
CdbRecordFor(k) ==
    databases.v[LastIndexOf([i \in DOMAIN databases.v |-> CdbKey(databases.v[i])], k)]

\* Some fetched home record carries the identifier h as its id.
HomeListed(h) ==
    \E j \in DOMAIN Objects(db_homes) :
        HasVal(Objects(db_homes)[j], "id") /\ Objects(db_homes)[j]["id"] = h

\* C5: a PDB whose container-database-id is a key of the CDB mapping, but
\* whose CDB's db-home-id is missing or is the id of no fetched home, gets
\* Oracle_Home "Unknown Oracle Home" and the CDB's db-name as CDB_Name.
C5_UnmappedHomeGivesPlaceholder ==
    Joined =>
        \A i \in 1..Len(pdbs.v) :
            (HasVal(pdbs.v[i], CID) /\ pdbs.v[i][CID] \in DOMAIN cdb_mapping) =>
                LET db == CdbRecordFor(pdbs.v[i][CID])
                IN ("db-home-id" \notin DOMAIN db \/ ~HomeListed(db["db-home-id"])) =>
                      /\ mapping[i].Oracle_Home = "Unknown Oracle Home"
                      /\ mapping[i].CDB_Name = Get(db, "db-name", "Unknown CDB")

\* C6: when the PDB fetch yields no rows, main logs it and ends at once: no
\* further command is issued, no exception ends the run, and the file is left
\* as it was.
C6_AbortOnNoPdbs ==
    (pdbs.t # "unbound" /\ ~Truthy(pdbs)) =>
        /\ pc = "ABORT"
        /\ issued = <<PdbCommand(profile, compartment_id)>>
        /\ Last(log) = "No PDB data found."
        /\ exc = ""
        /\ Untouched(file)

C6_Witness ==
    /\ pc = "ABORT"
    /\ outcome.kind = "exit"
    /\ file = OldFile

\* C7: with N > 0 PDBs and a failed CDB fetch, the CDB mapping is empty, every
\* row carries both placeholders, and the run ends in DONE with a file of N
\* data rows.  (Runs ended by output of an unexpected shape are left aside.)
C7_CdbFailureStillCompletes ==
    (HavePdbs /\ CdbFetchFailed /\ ~EndedByShape) =>
        /\ cdb_mapping = EmptyDict
        /\ pc # "CRASHED"
        /\ Joined =>
              \A i \in 1..Len(mapping) :
                  /\ mapping[i].CDB_Name = "Unknown CDB"
                  /\ mapping[i].Oracle_Home = "Unknown Oracle Home"
        /\ pc = "DONE" =>
              file.exists /\ ~Untouched(file) /\ DataRows(file) = Len(pdbs.v)

\* C8: the write step always ends in DONE with the completion line printed
\* last and no exception; if the file does not hold the complete report, the
\* line before it is save_to_csv's diagnostic.
C8_WriteFailureIsSoft ==
    [][pc = "WRITE_CSV" =>
          /\ pc' = "DONE"
          /\ exc' = ""
          /\ Last(log') = "Process completed successfully."
          /\ (file' # [exists |-> TRUE, text |-> CsvText(mapping)]) =>
                log'[Len(log') - 1] = "Error saving CSV"]_vars

C8_Witness ==
    /\ pc = "DONE"
    /\ file.exists
    /\ Len(mapping) = 2
    /\ DataRows(file) = 1
    /\ Len(file.text) < Len(CsvText(mapping)) - Len(CsvRecord(CsvLine(mapping[2])))
    /\ log[Len(log) - 1] = "Error saving CSV"

\* C9: row i is built from the i-th PDB, and its CDB_ID is that PDB's
\* container-database-id as it stands, or "Unknown CDB" when the PDB holds no
\* value for it (the field is missing from the record, or null).
C9_OrderAndCdbId ==
    Joined =>
        /\ Len(mapping) = Len(pdbs.v)
        /\ \A i \in 1..Len(pdbs.v) :
              /\ mapping[i].PDB_Name = Get(pdbs.v[i], "pdb-name", "Unknown PDB")
              /\ mapping[i].CDB_ID =
                    IF HasVal(pdbs.v[i], CID) THEN pdbs.v[i][CID] ELSE "Unknown CDB"

\* C10: a resolved Oracle_Home is the display-name of a fetched home whose id
\* is the db-home-id of a fetched CDB whose id is the PDB's
\* container-database-id, all three identifiers being real values, and the
\* row's CDB_Name comes from that same CDB.
C10_JoinSoundness ==
    Joined =>
        \A i \in 1..Len(pdbs.v) :
            \/ mapping[i].Oracle_Home = "Unknown Oracle Home"
            \/ \E c \in DOMAIN Objects(databases), h \in DOMAIN Objects(db_homes) :
                  LET db == Objects(databases)[c]
                      home == Objects(db_homes)[h]
                  IN /\ HasVal(pdbs.v[i], CID)
                     /\ HasVal(db, "id")
                     /\ db["id"] = pdbs.v[i][CID]
                     /\ HasVal(db, "db-home-id")
                     /\ HasVal(home, "id")
                     /\ home["id"] = db["db-home-id"]
                     /\ "display-name" \in DOMAIN home
                     /\ mapping[i].Oracle_Home = home["display-name"]
                     /\ mapping[i].CDB_Name = Get(db, "db-name", "Unknown CDB")

====
